---- MODULE Spec2Model ----
(***************************************************************************)
(* Model of the Othello environment of srl/envs/othello.py.                *)
(*                                                                         *)
(* The engine state is the dataclass fields W, H, the private              *)
(* _player_index, the flat board `field`, the per-player movable-direction *)
(* lists `movable_dirs` and the recorded last `action`.  `ret` is the      *)
(* tuple returned by the last call_step, `blob` the pickle the caller got  *)
(* from backup().  Python lists indexed from 0 are functions on 0..n-1.    *)
(*                                                                         *)
(* The replay memory of srl/rl/memories/rankbase_memory_linear.py is the   *)
(* list `memory` of (priority, batch) entries, `max_priority` and the      *)
(* dataclass field `capacity`; `batchs` is what the caller holds from the  *)
(* last sample().  The list is a sequence indexed from 1.                  *)
(***************************************************************************)
EXTENDS Integers, Sequences, FiniteSets, TLC

VARIABLES
    W,              \* Othello.W
    H,              \* Othello.H
    player_index,   \* Othello._player_index
    field,          \* Othello.field : [0..W*H-1 -> {-1,0,1}], <<>> before reset
    movable_dirs,   \* Othello.movable_dirs : [0..1 -> [0..W*H-1 -> Seq(dir)]]
    action,         \* Othello.action (last selected action)
    ret,            \* (r1, r2, done, info) of the last call_step
    blob,           \* result of the caller's last backup(), <<>> before
    saved,          \* history: the engine fields at the time of that backup()
    undone,         \* history: restores that took back a move (0, 1, 2 = more)
    lastOp,         \* the method that ran last
    max_depth,      \* Cpu.max_depth of the worker
    cache,          \* Cpu.cache, the class attribute: key -> scores
    owner,          \* history: key -> (mover, W, H) of the state that stored it
    render_scores,  \* Cpu._render_scores, the root scores of the last search
    count,          \* Cpu._count after the last search
    choices,        \* the population the last call_policy drew from
    chosen,         \* the action the last call_policy returned
    raised,         \* the last call_policy ended with an exception
    trace,          \* history: the simulated steps of the last search
    hits,           \* history: the cache hits of the last search
    searches,       \* number of call_policy calls made
    memory,         \* RankBaseMemoryLinear.memory : Seq([priority, batch])
    max_priority,   \* RankBaseMemoryLinear.max_priority
    capacity,       \* RankBaseMemoryLinear.capacity
    batchs,         \* the batches of the caller's last sample(), not yet updated
    mem_data        \* result of the caller's last memory backup(), <<>> before

engine_vars == <<W, H, player_index, field, movable_dirs, action, ret, blob,
                 saved, undone>>

cpu_vars == <<max_depth, cache, owner, render_scores, count, choices, chosen,
              raised, trace, hits, searches>>

mem_vars == <<memory, max_priority, capacity, batchs, mem_data>>

vars == <<W, H, player_index, field, movable_dirs, action, ret, blob, saved,
          undone, lastOp, max_depth, cache, owner, render_scores, count,
          choices, chosen, raised, trace, hits, searches, memory,
          max_priority, capacity, batchs, mem_data>>

\* ------------------------------------------------------------------ bounds

\* Board shapes (W, H) the engine is constructed with.
BoardSizes == {<<2, 2>>, <<2, 4>>, <<4, 2>>, <<3, 4>>, <<4, 3>>, <<4, 4>>}

\* Board shapes on which _calc_movable_dirs is applied to every board.
RuleSizes == {<<3, 3>>, <<2, 4>>, <<4, 2>>, <<1, 5>>, <<5, 1>>}

\* Moves applied on the 8x8 board.
Max8Moves == 1

\* Board shapes of the runs that take and restore snapshots.
SnapSizes == {<<2, 4>>, <<4, 2>>, <<3, 3>>}

\* Moves applied on one board before the exploration stops placing stones.
MaxMoves == 4

\* The same, for the runs that take and restore snapshots.
MaxSnapMoves == 4

\* The caller holds no snapshot (a pickle is never empty).
NoBlob == <<>>

\* ------------------------------------------------------- board helpers

\* Mutant: x is not tested, a step over the left or right edge reads the
\* neighbouring row.
get_field_no_x_test(f, w, h, x, y) ==
    IF y < 0 THEN 9
    ELSE IF y >= h THEN 9
    ELSE IF w * y + x < 0 \/ w * y + x >= w * h THEN 9
    ELSE f[w * y + x]

\* get_field: 9 outside the grid, else field[W * y + x].
get_field(f, w, h, x, y) ==
    IF x < 0 THEN 9
    ELSE IF x >= w THEN 9
    ELSE IF y < 0 THEN 9
    ELSE IF y >= h THEN 9
    ELSE f[w * y + x]

\* set_field: field[W * y + x] = n.
set_field(f, w, x, y, n) == [f EXCEPT ![w * y + x] = n]

pos(w, x, y) == w * y + x

\* pos_decode: (a % W, a // W).
pos_decode(w, a) == <<a % w, a \div w>>

\* Mutant: the two colours are exchanged.
my_color_of_swapped(p) == IF p = 0 THEN -1 ELSE 1

my_color_of(p) == IF p = 0 THEN 1 ELSE -1

\* The scan order of _calc_movable_dirs: (diff_x, diff_y, dir_), numpad codes.
DirList ==
    << <<-1, 1, 1>>, <<0, 1, 2>>, <<1, 1, 3>>, <<1, 0, 6>>,
       <<1, -1, 9>>, <<0, -1, 8>>, <<-1, -1, 7>>, <<-1, 0, 4>> >>

\* move_diff of _step: dir -> (diff_x, diff_y).
move_diff(d) ==
    CASE d = 1 -> <<-1, 1>>
      [] d = 2 -> <<0, 1>>
      [] d = 3 -> <<1, 1>>
      [] d = 6 -> <<1, 0>>
      [] d = 9 -> <<1, -1>>
      [] d = 8 -> <<0, -1>>
      [] d = 7 -> <<-1, -1>>
      [] d = 4 -> <<-1, 0>>

\* The while loop of _calc_movable_dirs: skip the run of enemy stones and give
\* the content of the first cell behind it.
RECURSIVE skip_enemy(_, _, _, _, _, _, _, _)
skip_enemy(f, w, h, x, y, dx, dy, enemy_color) ==
    IF get_field(f, w, h, x, y) = enemy_color
    THEN skip_enemy(f, w, h, x + dx, y + dy, dx, dy, enemy_color)
    ELSE get_field(f, w, h, x, y)

\* Mutant: the test that the neighbour is an enemy stone is left out.
dir_movable_no_neighbour(f, w, h, x, y, dx, dy, my_color) ==
    skip_enemy(f, w, h, x + dx, y + dy, dx, dy, -my_color) = my_color

\* One direction of one empty cell: the neighbour is an enemy stone and the
\* run of enemy stones ends on a stone of the mover.
dir_movable(f, w, h, x, y, dx, dy, my_color) ==
    /\ get_field(f, w, h, x + dx, y + dy) = -my_color
    /\ skip_enemy(f, w, h, x + dx + dx, y + dy + dy, dx, dy, -my_color) = my_color

\* _calc_movable_dirs(player_index): for every cell the list of directions, in
\* scan order; occupied cells keep the empty list.
_calc_movable_dirs(f, w, h, p) ==
    [a \in 0..(w * h - 1) |->
        LET x == a % w
            y == a \div w
            ok(t) == dir_movable(f, w, h, x, y, t[1], t[2], my_color_of(p))
            hit == SelectSeq(DirList, ok)
        IN  IF get_field(f, w, h, x, y) # 0
            THEN <<>>
            ELSE [i \in 1..Len(hit) |-> hit[i][3]]]

\* movable_dirs = [_calc_movable_dirs(0), _calc_movable_dirs(1)].
new_movable_dirs(f, w, h) ==
    [p \in 0..1 |-> _calc_movable_dirs(f, w, h, p)]

\* get_invalid_actions(player_index).
get_invalid_actions(md, w, h, p) ==
    {a \in 0..(w * h - 1) : Len(md[p][a]) = 0}

\* --------------------------------------------------------------- moves

\* The inner while loop of _step: from (x, y) turn every cell to my_color
\* until a cell of my_color is met.  get_field gives 9 outside the grid, so a
\* walk that leaves the grid goes on through field[pos(x, y)] (negative
\* indices count from the end) until the index is out of range and the
\* assignment raises IndexError.
RECURSIVE flip_walk(_, _, _, _, _, _, _, _)
flip_walk(f, w, h, x, y, dx, dy, my_color) ==
    IF get_field(f, w, h, x, y) = my_color
    THEN f
    ELSE LET a == pos(w, x, y)
         IN  IF a < -(w * h) \/ a >= w * h
             THEN f
             ELSE flip_walk([f EXCEPT ![a % (w * h)] = my_color],
                            w, h, x + dx, y + dy, dx, dy, my_color)

\* Mutant: the loop over the directions stops after the first one.
flip_dirs_first_only(f, w, h, x, y, dirs, i, my_color) ==
    IF i > Len(dirs) \/ i > 1
    THEN f
    ELSE LET d == move_diff(dirs[i])
         IN  flip_walk(f, w, h, x + d[1], y + d[2], d[1], d[2], my_color)

\* The for loop of _step over movable_dirs[player_index][action], from the
\* i-th direction on.
RECURSIVE flip_dirs(_, _, _, _, _, _, _, _)
flip_dirs(f, w, h, x, y, dirs, i, my_color) ==
    IF i > Len(dirs)
    THEN f
    ELSE LET d == move_diff(dirs[i])
         IN  flip_dirs(flip_walk(f, w, h, x + d[1], y + d[2], d[1], d[2], my_color),
                       w, h, x, y, dirs, i + 1, my_color)

\* Mutant: the stone is not put on `action`, only the flips are made.
step_field_no_stone(f, md, w, h, p, a) ==
    LET xy == pos_decode(w, a)
    IN  flip_dirs(f, w, h, xy[1], xy[2], md[p][a], 1, my_color_of(p))

\* The board written by _step: the stone on `action`, then the flips.
step_field(f, md, w, h, p, a) ==
    LET xy == pos_decode(w, a)
        my_color == my_color_of(p)
    IN  flip_dirs([f EXCEPT ![a] = my_color], w, h, xy[1], xy[2],
                  md[p][a], 1, my_color)

\* Mutant: movable_dirs is not recomputed after the move.
_step_stale_dirs(f, md, w, h, p, a) ==
    [field |-> step_field(f, md, w, h, p, a), movable_dirs |-> md]

\* _step(action): the new field and the movable_dirs recomputed from it.
_step(f, md, w, h, p, a) ==
    LET f2 == step_field(f, md, w, h, p, a)
    IN  [field |-> f2, movable_dirs |-> new_movable_dirs(f2, w, h)]

\* len([c for c in field if c == v]).
count_of(f, v) == Cardinality({a \in DOMAIN f : f[a] = v})

\* Mutant: the same penalty whoever moves.
error_action_same(p) ==
    [r1 |-> -1, r2 |-> 0, done |-> TRUE, info |-> {}]

\* Mutant: the selection is penalised but the episode goes on.
error_action_not_done(p) ==
    IF p = 0
    THEN [r1 |-> -1, r2 |-> 0, done |-> FALSE, info |-> {}]
    ELSE [r1 |-> 0, r2 |-> -1, done |-> FALSE, info |-> {}]

\* The "error action" branch of call_step: what is returned for a selection
\* with no movable direction.
error_action(p) ==
    IF p = 0
    THEN [r1 |-> -1, r2 |-> 0, done |-> TRUE, info |-> {}]
    ELSE [r1 |-> 0, r2 |-> -1, done |-> TRUE, info |-> {}]

\* Mutant: the error branch hands the turn to the opponent.
error_action_mover_changed(p) == 1 - p

\* _player_index after the error branch, which assigns nothing but
\* self.action.
error_action_mover(p) == p

\* Mutant: >= for >, a tie counts as a win of player 0.
final_rewards_ge(p1_count, p2_count) ==
    IF p1_count >= p2_count THEN <<1, -1>> ELSE <<-1, 1>>

\* The end-of-game rewards of call_step from the two stone counts.
final_rewards(p1_count, p2_count) ==
    IF p1_count > p2_count THEN <<1, -1>>
    ELSE IF p1_count < p2_count THEN <<-1, 1>>
    ELSE <<0, 0>>

\* Mutant: the turn changes even when the opponent cannot move.
judge_no_pass(f, md, w, h, p) ==
    LET enemy_player == IF p = 0 THEN 1 ELSE 0
        n == w * h
        enemy_put_num == n - Cardinality(get_invalid_actions(md, w, h, enemy_player))
        my_put_num == n - Cardinality(get_invalid_actions(md, w, h, p))
        r == final_rewards(count_of(f, 1), count_of(f, -1))
    IN  IF enemy_put_num = 0 /\ my_put_num = 0
        THEN [player_index |-> p,
              ret |-> [r1 |-> r[1], r2 |-> r[2], done |-> TRUE,
                       info |-> {<<"P1", count_of(f, 1)>>, <<"P2", count_of(f, -1)>>}]]
        ELSE [player_index |-> enemy_player,
              ret |-> [r1 |-> 0, r2 |-> 0, done |-> FALSE, info |-> {}]]

\* Mutant: the pass test reads the mover's count, not the opponent's.
judge_my_put(f, md, w, h, p) ==
    LET enemy_player == IF p = 0 THEN 1 ELSE 0
        n == w * h
        enemy_put_num == n - Cardinality(get_invalid_actions(md, w, h, enemy_player))
        my_put_num == n - Cardinality(get_invalid_actions(md, w, h, p))
        r == final_rewards(count_of(f, 1), count_of(f, -1))
    IN  IF enemy_put_num = 0 /\ my_put_num = 0
        THEN [player_index |-> p,
              ret |-> [r1 |-> r[1], r2 |-> r[2], done |-> TRUE,
                       info |-> {<<"P1", count_of(f, 1)>>, <<"P2", count_of(f, -1)>>}]]
        ELSE IF my_put_num = 0
        THEN [player_index |-> enemy_player,
              ret |-> [r1 |-> 0, r2 |-> 0, done |-> FALSE, info |-> {}]]
        ELSE [player_index |-> p,
              ret |-> [r1 |-> 0, r2 |-> 0, done |-> FALSE, info |-> {}]]

\* The part of call_step after _step: end of game, pass, or change of turn.
\* Gives the next _player_index and the returned (r1, r2, done, info).
judge(f, md, w, h, p) ==
    LET enemy_player == IF p = 0 THEN 1 ELSE 0
        my_player == IF p = 0 THEN 0 ELSE 1
        n == w * h
        enemy_put_num == n - Cardinality(get_invalid_actions(md, w, h, enemy_player))
        my_put_num == n - Cardinality(get_invalid_actions(md, w, h, my_player))
        p1_count == count_of(f, 1)
        p2_count == count_of(f, -1)
        r == final_rewards(p1_count, p2_count)
    IN  IF enemy_put_num = 0 /\ my_put_num = 0
        THEN [player_index |-> p,
              ret |-> [r1 |-> r[1], r2 |-> r[2], done |-> TRUE,
                       info |-> {<<"P1", p1_count>>, <<"P2", p2_count>>}]]
        ELSE IF enemy_put_num = 0
        THEN [player_index |-> p,
              ret |-> [r1 |-> 0, r2 |-> 0, done |-> FALSE, info |-> {}]]
        ELSE [player_index |-> enemy_player,
              ret |-> [r1 |-> 0, r2 |-> 0, done |-> FALSE, info |-> {}]]

\* ------------------------------------------------------------ snapshots

\* A Python list given as a function on 0..n-1, as a sequence.
as_seq(f, n) == [i \in 1..n |-> f[i - 1]]

\* The element of a one-element set.  the({F(x) : x \in {e}}) computes e
\* once and gives its value the name x.
the(S) == CHOOSE y \in S : TRUE

\* One player's direction lists from a up to n - 1, each written as its
\* length and its items; the range is written half by half.
RECURSIVE dump_lists(_, _, _)
dump_lists(d, a, n) ==
    IF a >= n THEN <<>>
    ELSE IF a + 1 = n THEN <<Len(d[a])>> \o d[a]
    ELSE dump_lists(d, a, (a + n) \div 2) \o dump_lists(d, (a + n) \div 2, n)

\* pickle.dumps([_player_index, W, H, field, movable_dirs]): the serialized
\* copy, as the flat sequence of the numbers written.
pickle_dumps(p, w, h, f, md) ==
    <<p, w, h>> \o as_seq(f, w * h)
        \o dump_lists(md[0], 0, w * h) \o dump_lists(md[1], 0, w * h)

\* Reads k length-prefixed lists from index i on: <<the lists, next index>>.
\* The first half of the lists is read, then the other half from where the
\* first ended.
RECURSIVE load_lists(_, _, _)
load_lists(b, i, k) ==
    IF k = 0 THEN <<<<>>, i>>
    ELSE IF k = 1
    THEN <<<<[j \in 1..b[i] |-> b[i + j]]>>, i + b[i] + 1>>
    ELSE the({the({<<first[1] \o rest[1], rest[2]>>
                    : rest \in {load_lists(b, first[2], k - (k \div 2))}})
                : first \in {load_lists(b, i, k \div 2)}})

\* Mutant: both players get the first direction map.
pickle_loads_one_map(b) ==
    LET w == b[2]
        h == b[3]
        n == w * h
        l0 == load_lists(b, 4 + n, n)
    IN  [player_index |-> b[1], W |-> w, H |-> h,
         field |-> [a \in 0..(n - 1) |-> b[4 + a]],
         movable_dirs |-> [p \in 0..1 |-> [a \in 0..(n - 1) |-> l0[1][a + 1]]]]

\* pickle.loads(data): the list d of restore, as a record.
pickle_loads(b) ==
    LET w == b[2]
        h == b[3]
        n == w * h
        l0 == load_lists(b, 4 + n, n)
        l1 == load_lists(b, l0[2], n)
    IN  [player_index |-> b[1], W |-> w, H |-> h,
         field |-> [a \in 0..(n - 1) |-> b[4 + a]],
         movable_dirs |-> [p \in 0..1 |->
             [a \in 0..(n - 1) |-> IF p = 0 THEN l0[1][a + 1] ELSE l1[1][a + 1]]]]

\* ------------------------------------------------------------- lifecycle

NoRet == [r1 |-> 0, r2 |-> 0, done |-> FALSE, info |-> {}]

engine_fields ==
    [player_index |-> player_index, W |-> W, H |-> H, field |-> field,
     movable_dirs |-> movable_dirs]

\* The capacity of a memory constructed without arguments.
DefaultCapacity == 100000

\* RankBaseMemoryLinear.__post_init__ and init() on a memory of capacity c;
\* the caller holds no sampled batch.
memory_init(c) ==
    /\ memory = <<>>
    /\ max_priority = 1
    /\ capacity = c
    /\ batchs = <<>>
    /\ mem_data = <<>>

\* __post_init__: _player_index = 0; field, movable_dirs and action do not
\* exist before the first call_reset.
InitEngine(sizes) ==
    /\ \E s \in sizes : W = s[1] /\ H = s[2]
    /\ player_index = 0
    /\ field = <<>>
    /\ movable_dirs = <<>>
    /\ action = 0
    /\ ret = NoRet
    /\ blob = NoBlob
    /\ saved = [player_index |-> 0, W |-> 0, H |-> 0, field |-> <<>>,
                movable_dirs |-> <<>>]
    /\ undone = 0
    /\ lastOp = "init"
    /\ max_depth = 2
    /\ cache = <<>>
    /\ owner = <<>>
    /\ render_scores = <<>>
    /\ count = 0
    /\ choices = {}
    /\ chosen = 0
    /\ raised = FALSE
    /\ trace = {}
    /\ hits = {}
    /\ searches = 0

\* The engine and the worker after construction.
InitOn(sizes) ==
    /\ InitEngine(sizes)
    /\ memory_init(DefaultCapacity)

\* Mutant: the two colours of the opening are exchanged.
reset_field_swapped(w, h) ==
    LET center_x == (w \div 2) - 1
        center_y == (h \div 2) - 1
        f0 == [a \in 0..(w * h - 1) |-> 0]
        f1 == set_field(f0, w, center_x, center_y, -1)
        f2 == set_field(f1, w, center_x + 1, center_y + 1, -1)
        f3 == set_field(f2, w, center_x + 1, center_y, 1)
    IN  set_field(f3, w, center_x, center_y + 1, 1)

\* The opening position written by call_reset.
reset_field(w, h) ==
    LET center_x == (w \div 2) - 1
        center_y == (h \div 2) - 1
        f0 == [a \in 0..(w * h - 1) |-> 0]
        f1 == set_field(f0, w, center_x, center_y, 1)
        f2 == set_field(f1, w, center_x + 1, center_y + 1, 1)
        f3 == set_field(f2, w, center_x + 1, center_y, -1)
    IN  set_field(f3, w, center_x, center_y + 1, -1)

\* call_reset.  The caller's snapshot belongs to the episode it was taken in
\* and is dropped with it.
call_reset ==
    /\ action' = 0
    /\ player_index' = 0
    /\ field' = reset_field(W, H)
    /\ movable_dirs' = new_movable_dirs(reset_field(W, H), W, H)
    /\ ret' = NoRet
    /\ blob' = NoBlob
    /\ undone' = 0
    /\ lastOp' = "reset"
    /\ UNCHANGED <<W, H, saved>>
    /\ UNCHANGED cpu_vars
    /\ UNCHANGED mem_vars

\* call_step(action), for every action of the action space.  A legal move is
\* explored only while fewer than max_moves moves lie on the board.
call_step_upto(max_moves) ==
    /\ lastOp # "init"
    /\ \E a \in 0..(W * H - 1) :
        /\ action' = a
        /\ IF Len(movable_dirs[player_index][a]) = 0
           THEN /\ ret' = error_action(player_index)
                /\ player_index' = error_action_mover(player_index)
                /\ UNCHANGED <<field, movable_dirs>>
           ELSE /\ count_of(field, 1) + count_of(field, -1) < 4 + max_moves
                /\ LET s == _step(field, movable_dirs, W, H, player_index, a)
                       j == judge(s.field, s.movable_dirs, W, H, player_index)
                   IN  /\ field' = s.field
                       /\ movable_dirs' = s.movable_dirs
                       /\ player_index' = j.player_index
                       /\ ret' = j.ret
    /\ lastOp' = "step"
    /\ UNCHANGED <<W, H, blob, saved, undone>>
    /\ UNCHANGED cpu_vars
    /\ UNCHANGED mem_vars

\* backup(): the caller keeps the pickle.
backup ==
    /\ lastOp # "init"
    /\ blob' = pickle_dumps(player_index, W, H, field, movable_dirs)
    /\ saved' = engine_fields
    /\ undone' = 0
    /\ lastOp' = "backup"
    /\ UNCHANGED <<W, H, player_index, field, movable_dirs, action, ret>>
    /\ UNCHANGED cpu_vars
    /\ UNCHANGED mem_vars

\* restore(data) of the caller's pickle.
restore ==
    /\ blob # NoBlob
    /\ LET d == pickle_loads(blob)
       IN  /\ player_index' = d.player_index
           /\ W' = d.W
           /\ H' = d.H
           /\ field' = d.field
           /\ movable_dirs' = d.movable_dirs
    /\ undone' = IF field = saved.field THEN undone
                 ELSE IF undone = 0 THEN 1 ELSE 2
    /\ lastOp' = "restore"
    /\ UNCHANGED <<action, ret, blob, saved>>
    /\ UNCHANGED cpu_vars
    /\ UNCHANGED mem_vars

call_step == call_step_upto(MaxMoves)

call_step_snap == call_step_upto(MaxSnapMoves)

\* Episodes: resets and steps on every board shape.
Init == InitOn(BoardSizes)

Next ==
    \/ call_reset
    \/ call_step

Spec == Init /\ [][Next]_vars

\* Episodes whose caller also takes and restores snapshots.
InitSnap == InitOn(SnapSizes)

NextSnap ==
    \/ call_reset
    \/ call_step_snap
    \/ backup
    \/ restore

SpecSnap == InitSnap /\ [][NextSnap]_vars

\* _calc_movable_dirs applied to an arbitrary board: the engine is
\* constructed, field is assigned any cell sequence of its size, and the
\* maps are computed from it.
InitRule ==
    /\ InitOn(RuleSizes)
    /\ lastOp = "init"

any_board ==
    /\ lastOp = "init"
    /\ \E f \in [0..(W * H - 1) -> {-1, 0, 1}] : field' = f
    /\ lastOp' = "board"
    /\ UNCHANGED <<W, H, player_index, movable_dirs, action, ret, blob, saved,
                   undone>>
    /\ UNCHANGED cpu_vars
    /\ UNCHANGED mem_vars

calc_dirs ==
    /\ lastOp = "board"
    /\ movable_dirs' = new_movable_dirs(field, W, H)
    /\ lastOp' = "calc"
    /\ UNCHANGED <<W, H, player_index, field, action, ret, blob, saved, undone>>
    /\ UNCHANGED cpu_vars
    /\ UNCHANGED mem_vars

NextRule ==
    \/ any_board
    \/ calc_dirs

SpecRule == InitRule /\ [][NextRule]_vars

\* Episodes on the 8x8 board of the registered "Othello" environment.
Init8 == InitOn({<<8, 8>>})

call_step_8 == call_step_upto(Max8Moves)

Next8 ==
    \/ call_reset
    \/ call_step_8

Spec8 == Init8 /\ [][Next8]_vars

\* Whole episodes on the 4x4 board, the smallest even board with W, H >= 4,
\* played by legal selections up to the end of the game.
GameMoves == 12

InitGame == InitOn({<<4, 4>>})

call_step_game ==
    /\ call_step_upto(GameMoves)
    /\ Len(movable_dirs[player_index][action']) > 0

NextGame ==
    \/ call_reset
    \/ call_step_game

SpecGame == InitGame /\ [][NextGame]_vars

\* ------------------------------------------------------------- the agent

\* Bounds of the agent's runs: searches made, and moves played between them.
MaxSearches == 3

MaxCpuMoves == 2

\* The agent's runs: board shapes W, H and the max_depth set on them.
CpuSetups ==
    {<<3, 4, 0>>, <<3, 4, 2>>, <<2, 6, 2>>, <<6, 6, 0>>, <<6, 4, 0>>}

CpuSizes == {<<s[1], s[2]>> : s \in CpuSetups}

CpuDepths == {s[3] : s \in CpuSetups}

\* Cpu.evals8x8 and Cpu.evals6x6 after flatten().
evals8x8 ==
    <<30, -12, 0, -1, -1, 0, -12, 30,
      -12, -15, -3, -3, -3, -3, -15, -12,
      0, -3, 0, -1, -1, 0, -3, 0,
      -1, -3, -1, -1, -1, -1, -3, -1,
      -1, -3, -1, -1, -1, -1, -3, -1,
      0, -3, 0, -1, -1, 0, -3, 0,
      -12, -15, -3, -3, -3, -3, -15, -12,
      30, -12, 0, -1, -1, 0, -12, 30>>

evals6x6 ==
    <<30, -12, 0, 0, -12, 30,
      -12, -15, -3, -3, -15, -12,
      0, -3, 0, 0, -3, 0,
      0, -3, 0, 0, -3, 0,
      -12, -15, -3, -3, -15, -12,
      30, -12, 0, 0, -12, 30>>

\* The sum of t[i] * f[i - 1] for i in lo..hi, halving the range.
RECURSIVE dot(_, _, _, _)
dot(t, f, lo, hi) ==
    IF lo = hi THEN t[lo] * f[lo - 1]
    ELSE dot(t, f, lo, (lo + hi) \div 2) + dot(t, f, (lo + hi) \div 2 + 1, hi)

\* np.sum(evals * env.field): the product is elementwise, and numpy raises
\* ValueError when the two lengths differ.
table_sum(t, f, n) ==
    IF Len(t) = n THEN [raised |-> FALSE, value |-> dot(t, f, 1, n)]
    ELSE [raised |-> TRUE, value |-> 0]

\* Mutant: the sign of the evaluation is never inverted.
leaf_eval_unsigned(env, p) ==
    IF env.W = 8 THEN table_sum(evals8x8, env.field, env.W * env.H)
    ELSE IF env.W = 6 THEN table_sum(evals6x6, env.field, env.W * env.H)
    ELSE [raised |-> FALSE, value |-> 0]

\* The evaluation of a board by the node whose local player_index is p.
leaf_eval(env, p) ==
    LET s == IF env.W = 8 THEN table_sum(evals8x8, env.field, env.W * env.H)
             ELSE IF env.W = 6
                  THEN table_sum(evals6x6, env.field, env.W * env.H)
                  ELSE [raised |-> FALSE, value |-> 0]
    IN  [raised |-> s.raised, value |-> IF p # 0 THEN -s.value ELSE s.value]

\* str(env.field): the cells, and nothing else of the engine.
cache_key(env) == as_seq(env.field, env.W * env.H)

\* np.max of a score vector.
np_max(s) ==
    CHOOSE m \in {s[a] : a \in DOMAIN s} : \A a \in DOMAIN s : s[a] <= m

\* Mutant: the first maximum only.
policy_choices_first(s) ==
    {CHOOSE a \in DOMAIN s :
        /\ s[a] = np_max(s)
        /\ \A b \in DOMAIN s : s[b] = np_max(s) => a <= b}

\* np.where(scores == scores.max())[0], the population of random.choice.
policy_choices(s) == {a \in DOMAIN s : s[a] = np_max(s)}

\* get_valid_actions of the base class: the actions that are not invalid,
\* in ascending order.
get_valid_actions(md, w, h, p) ==
    LET inv == get_invalid_actions(md, w, h, p)
        is_valid(a) == a \notin inv
    IN  SelectSeq([i \in 1..(w * h) |-> i - 1], is_valid)

\* copy() of the base class: a new engine that restored a backup of env.
env_copy(env) ==
    pickle_loads(pickle_dumps(env.player_index, env.W, env.H, env.field,
                              env.movable_dirs))

\* Mutant: the search runs on the caller's engine.
searched_engine_caller == "caller"

\* The engine handed to _negamax by call_policy is the copy.
searched_engine == "copy"

\* Mutant: the restore before a sibling leaves the mover as it is.
node_restore_keeps_mover(env, env_dat) ==
    [pickle_loads(env_dat) EXCEPT !.player_index = env.player_index]

\* env.restore(env_dat) at the top of the loop body.
node_restore(env, env_dat) == pickle_loads(env_dat)

\* env.call_step(a) on an engine given as a record.
env_call_step(env, a) ==
    IF Len(env.movable_dirs[env.player_index][a]) = 0
    THEN [env |-> env, ret |-> error_action(env.player_index)]
    ELSE LET s == _step(env.field, env.movable_dirs, env.W, env.H,
                        env.player_index, a)
             j == judge(s.field, s.movable_dirs, env.W, env.H,
                        env.player_index)
         IN  [env |-> [player_index |-> j.player_index, W |-> env.W,
                       H |-> env.H, field |-> s.field,
                       movable_dirs |-> s.movable_dirs],
              ret |-> j.ret]

\* Who stored a cache entry: the mover and the board shape.
signature(env) == <<env.player_index, env.W, env.H>>

\* Mutant: the parent always negates the child's maximum.
child_score_negated(is_enemy, n_scores) == -np_max(n_scores)

\* The parent's score of an action that led into a child node.
child_score(is_enemy, n_scores) ==
    IF is_enemy THEN -np_max(n_scores) ELSE np_max(n_scores)

\* Mutant: evaluation starts one ply earlier.
at_leaf_depth_early(depth, maxd) == depth >= maxd

\* depth > self.max_depth
at_leaf_depth(depth, maxd) == depth > maxd

\* Mutant: the reward of player 0 is taken for both movers.
terminal_value_r1(p, r) == r.r1 * 500

\* The score of an action that ended the game, for the node's mover p.
terminal_value(p, r) == (IF p = 0 THEN r.r1 ELSE r.r2) * 500

\* Mutant: a cache hit is counted as a visited node.
on_cache_hit_counted(st, h) ==
    [st EXCEPT !.hits = @ \cup {h}, !.count = @ + 1]

\* The search state after a cache hit: only the history of hits grows.
on_cache_hit(st, h) == [st EXCEPT !.hits = @ \cup {h}]

RECURSIVE _negamax(_, _, _, _)
RECURSIVE negamax_loop(_, _, _, _, _, _, _)

\* The loop body after the step: env1 is the engine after the restore and r
\* the outcome of call_step(a).  acc is the engine, the search state and the
\* scores written so far.
score_action(maxd, depth, node, a, acc, env1, r) ==
    LET p == node.player_index
        entry == [depth |-> depth, a |-> a,
                  node |-> [player_index |-> node.player_index,
                            field |-> node.field,
                            movable_dirs |-> node.movable_dirs],
                  applied |-> [player_index |-> env1.player_index,
                               field |-> env1.field,
                               movable_dirs |-> env1.movable_dirs],
                  after |-> [player_index |-> r.env.player_index,
                             field |-> r.env.field],
                  done |-> r.ret.done, r1 |-> r.ret.r1, r2 |-> r.ret.r2,
                  score |-> 0]
    IN  IF r.ret.done
        THEN LET v == terminal_value(p, r.ret)
             IN  [env |-> r.env,
                  st |-> [acc.st EXCEPT !.trace =
                            @ \cup {[entry EXCEPT !.score = v]}],
                  scores |-> [acc.scores EXCEPT ![a] = v]]
        ELSE IF at_leaf_depth(depth, maxd)
        THEN LET e == leaf_eval(r.env, p)
             IN  [env |-> r.env,
                  st |-> [acc.st EXCEPT
                            !.raised = e.raised,
                            !.trace = IF e.raised THEN @
                                ELSE @ \cup {[entry EXCEPT !.score = e.value]}],
                  scores |-> IF e.raised THEN acc.scores
                             ELSE [acc.scores EXCEPT ![a] = e.value]]
        ELSE the({
            LET is_enemy == p # r.env.player_index
                v == child_score(is_enemy, sub.scores)
            IN  IF sub.st.raised
                THEN [env |-> sub.env, st |-> sub.st, scores |-> acc.scores]
                ELSE [env |-> sub.env,
                      st |-> [sub.st EXCEPT !.trace =
                                @ \cup {[entry EXCEPT !.score = v]}],
                      scores |-> [acc.scores EXCEPT ![a] = v]]
            : sub \in {_negamax(maxd, r.env, depth + 1, acc.st)}})

\* The loop body of _negamax for the action a: restore, step, score.
loop_body(maxd, depth, node, env_dat, a, acc) ==
    the({the({score_action(maxd, depth, node, a, acc, env1, r)
                : r \in {env_call_step(env1, a)}})
            : env1 \in {node_restore(acc.env, env_dat)}})

\* The for loop of _negamax from the i-th valid action on; an exception
\* ends it.
negamax_loop(maxd, depth, node, env_dat, valid, i, acc) ==
    IF i > Len(valid) \/ acc.st.raised THEN acc
    ELSE the({negamax_loop(maxd, depth, node, env_dat, valid, i + 1, nxt)
                : nxt \in {loop_body(maxd, depth, node, env_dat, valid[i], acc)}})

\* A node that is not in the cache: the count, the backup, the valid
\* actions, the initial scores and the loop.
negamax_node(maxd, env, depth, st) ==
    the({negamax_loop(maxd, depth, env, env_dat, valid, 1, acc0)
            : env_dat \in {pickle_dumps(env.player_index, env.W, env.H,
                                        env.field, env.movable_dirs)},
              valid \in {get_valid_actions(env.movable_dirs, env.W, env.H,
                                           env.player_index)},
              acc0 \in {[env |-> env,
                         st |-> [st EXCEPT !.count = @ + 1],
                         scores |-> [a \in 0..(env.W * env.H - 1) |-> -999]]}})

\* _negamax(env, depth): the scores, the engine as the call leaves it, and
\* the search state (Cpu.cache, self._count and the history).
_negamax(maxd, env0, depth, st0) ==
    the({
        IF cache_key(env) \in DOMAIN st.cache
        THEN [scores |-> st.cache[cache_key(env)], env |-> env,
              st |-> on_cache_hit(st,
                        [depth |-> depth, key |-> cache_key(env),
                         node |-> signature(env),
                         owner |-> st.owner[cache_key(env)]])]
        ELSE the({
            IF out.st.raised THEN out
            ELSE [scores |-> out.scores, env |-> out.env,
                  st |-> [out.st EXCEPT
                            !.cache = (cache_key(env) :> out.scores) @@ @,
                            !.owner = (cache_key(env) :> signature(env)) @@ @]]
            : out \in {negamax_node(maxd, env, depth, st)}})
        : env \in {env0}, st \in {st0}})

\* Cpu.call_policy(env, worker_run).  The two engines of the call are the
\* caller's and the copy; the search leaves its moves in the one it was given.
call_policy ==
    /\ lastOp \notin {"init", "made"}
    /\ ~ret.done
    /\ searches < MaxSearches
    /\ \E heap0 \in {[caller |-> engine_fields,
                      copy |-> env_copy(engine_fields)]} :
       \E out \in {_negamax(max_depth, heap0[searched_engine], 0,
                      [cache |-> cache, owner |-> owner, count |-> 0,
                       trace |-> {}, hits |-> {}, raised |-> FALSE])} :
       \E heap1 \in {[heap0 EXCEPT ![searched_engine] = out.env]} :
           /\ W' = heap1.caller.W
           /\ H' = heap1.caller.H
           /\ player_index' = heap1.caller.player_index
           /\ field' = heap1.caller.field
           /\ movable_dirs' = heap1.caller.movable_dirs
           /\ cache' = out.st.cache
           /\ owner' = out.st.owner
           /\ count' = out.st.count
           /\ trace' = out.st.trace
           /\ hits' = out.st.hits
           /\ raised' = out.st.raised
           /\ IF out.st.raised
              THEN UNCHANGED <<render_scores, choices, chosen>>
              ELSE /\ render_scores' = out.scores
                   /\ choices' = policy_choices(out.scores)
                   /\ chosen' \in choices'
    /\ searches' = searches + 1
    /\ lastOp' = "policy"
    /\ UNCHANGED <<action, ret, blob, saved, undone, max_depth>>
    /\ UNCHANGED mem_vars

\* The caller sets the depth of the worker it made.
set_max_depth ==
    /\ lastOp = "init"
    /\ \E d \in CpuDepths : <<W, H, d>> \in CpuSetups /\ max_depth' = d
    /\ lastOp' = "made"
    /\ UNCHANGED engine_vars
    /\ UNCHANGED <<cache, owner, render_scores, count, choices, chosen, raised,
                   trace, hits, searches>>
    /\ UNCHANGED mem_vars

\* Another engine and another worker are made in the same process: the
\* class attribute Cpu.cache stays.
make_env ==
    /\ lastOp = "policy"
    /\ \E s \in CpuSizes : W' = s[1] /\ H' = s[2]
    /\ player_index' = 0
    /\ field' = <<>>
    /\ movable_dirs' = <<>>
    /\ action' = 0
    /\ ret' = NoRet
    /\ max_depth' = 2
    /\ lastOp' = "init"
    /\ UNCHANGED <<blob, saved, undone, cache, owner, render_scores, count,
                   choices, chosen, raised, trace, hits, searches>>
    /\ UNCHANGED mem_vars

\* The caller steps the engine with the action the worker returned.
call_step_cpu ==
    /\ lastOp = "policy"
    /\ ~raised
    /\ action' = chosen
    /\ call_step_upto(MaxCpuMoves)

call_reset_cpu ==
    /\ lastOp \in {"made", "policy"}
    /\ call_reset

InitCpu == InitOn(CpuSizes)

NextCpu ==
    \/ set_max_depth
    \/ call_reset_cpu
    \/ call_step_cpu
    \/ call_policy
    \/ make_env

SpecCpu == InitCpu /\ [][NextCpu]_vars

\* ------------------------------------------------------ the replay memory

\* Bound of the runs of the memory: the largest batch_size of sample().
MaxBatchSize == 2

\* The capacities the memories are constructed with.
MemCapacities == {2, 3}

\* The batches a caller adds and the td_error values it passes.
MemBatches == {1, 2}

MemTdErrors == {-2, 0, 1}

\* The Optional[float] td_error of add(): <<>> is None, <<e>> is the value e.
NoTdError == <<>>

OptionalTdErrors == {NoTdError} \cup {<<e>> : e \in MemTdErrors}

\* float(abs(td_error))
abs(x) == IF x < 0 THEN -x ELSE x

\* _bisect_wrapper.__lt__
wrapper_lt(a, o) == a.priority < o.priority

\* bisect.bisect_right(a, x, lo, hi): the binary search of insort.
RECURSIVE bisect_right(_, _, _, _)
bisect_right(a, x, lo, hi) ==
    IF lo >= hi THEN lo
    ELSE IF wrapper_lt(x, a[((lo + hi) \div 2) + 1])
         THEN bisect_right(a, x, lo, (lo + hi) \div 2)
         ELSE bisect_right(a, x, ((lo + hi) \div 2) + 1, hi)

\* list.insert(i, x) for the 0-based position i.
list_insert(a, i, x) == SubSeq(a, 1, i) \o <<x>> \o SubSeq(a, i + 1, Len(a))

\* bisect.insort(a, x)
insort(a, x) == list_insert(a, bisect_right(a, x, 0, Len(a)), x)

\* list.pop(i) for the 0-based position i: the list that is left.
list_pop(a, i) == SubSeq(a, 1, i) \o SubSeq(a, i + 2, Len(a))

\* The room add() makes before it inserts: pop(0) on a full memory.
make_room(a, c) == IF Len(a) >= c THEN list_pop(a, 0) ELSE a

\* add(batch, td_error) for the batches and td_error arguments of a caller.
add_from(batches, td_args) ==
    /\ \E batch \in batches : \E td_error \in td_args :
        \E priority \in {IF td_error = NoTdError THEN max_priority
                          ELSE abs(td_error[1])} :
            /\ max_priority' = IF max_priority < priority THEN priority
                               ELSE max_priority
            /\ memory' = insort(make_room(memory, capacity),
                                [priority |-> priority, batch |-> batch])
    /\ lastOp' = "add"
    /\ UNCHANGED <<capacity, batchs, mem_data>>
    /\ UNCHANGED engine_vars
    /\ UNCHANGED cpu_vars

add == add_from(MemBatches, OptionalTdErrors)

\* The elements of the set of indices idx in descending order:
\* index_list.sort(reverse=True).
RECURSIVE sort_reverse(_)
sort_reverse(idx) ==
    IF idx = {} THEN <<>>
    ELSE LET m == CHOOSE i \in idx : \A j \in idx : j <= i
         IN  <<m>> \o sort_reverse(idx \ {m})

\* The pops of sample() for the descending index list l from its k-th item
\* on: the list that is left and the batches taken.
RECURSIVE pop_all(_, _, _, _)
pop_all(a, l, k, out) ==
    IF k > Len(l) THEN [memory |-> a, batchs |-> out]
    ELSE pop_all(list_pop(a, l[k]), l, k + 1, Append(out, a[l[k] + 1].batch))

\* sample(batch_size, step).  The draws give batch_size distinct indices
\* below len(memory), or all of them when the memory holds fewer entries.
\* On an empty memory the draw is index 0 and pop raises IndexError before
\* anything is assigned: that call changes nothing and is not a step.
sample ==
    /\ Len(memory) > 0
    /\ \E batch_size \in 1..MaxBatchSize :
        \E index_set \in SUBSET (0..(Len(memory) - 1)) :
            /\ Cardinality(index_set) =
                    IF batch_size <= Len(memory) THEN batch_size
                    ELSE Len(memory)
            /\ \E out \in {pop_all(memory, sort_reverse(index_set), 1, <<>>)} :
                    /\ memory' = out.memory
                    /\ batchs' = out.batchs
    /\ lastOp' = "sample"
    /\ UNCHANGED <<max_priority, capacity, mem_data>>
    /\ UNCHANGED engine_vars
    /\ UNCHANGED cpu_vars

\* The loop of update() from the i-th batch on.
RECURSIVE update_loop(_, _, _, _, _)
update_loop(a, mp, bs, tds, i) ==
    IF i > Len(bs) THEN [memory |-> a, max_priority |-> mp]
    ELSE update_loop(insort(a, [priority |-> abs(tds[i]), batch |-> bs[i]]),
                     IF mp < abs(tds[i]) THEN abs(tds[i]) ELSE mp,
                     bs, tds, i + 1)

\* update(indices, batchs, td_errors) with the batches of the last sample
\* and td_errors of a caller.
update_from(tds) ==
    /\ Len(batchs) > 0
    /\ \E td_errors \in [1..Len(batchs) -> tds] :
        \E out \in {update_loop(memory, max_priority, batchs, td_errors, 1)} :
            /\ memory' = out.memory
            /\ max_priority' = out.max_priority
    /\ batchs' = <<>>
    /\ lastOp' = "update"
    /\ UNCHANGED <<capacity, mem_data>>
    /\ UNCHANGED engine_vars
    /\ UNCHANGED cpu_vars

update == update_from(MemTdErrors)

InitMem ==
    /\ InitEngine({<<8, 8>>})
    /\ \E c \in MemCapacities : memory_init(c)

NextMem ==
    \/ add
    \/ sample
    \/ update

SpecMem == InitMem /\ [][NextMem]_vars

\* Memories whose caller also takes and restores backups: one batch value,
\* the capacity 2 and the priorities 0, 1 and 2.
SnapCapacities == {2}

\* Bound of these runs: a restore followed by the update of an earlier
\* sample puts entries back twice, so the list can grow without limit; an
\* update is explored while the list it leaves has at most MaxMemLen entries.
MaxMemLen == 4

SnapBatches == {1}

SnapTdErrors == {-2, 0}

\* backup(): the list of (priority, batch) tuples and max_priority.
memory_dumps(a, mp) == <<[i \in 1..Len(a) |-> <<a[i].priority, a[i].batch>>], mp>>

\* Mutant: the entries are appended in reverse.
memory_loads_reversed(data) ==
    [i \in 1..Len(data[1]) |->
        [priority |-> data[1][Len(data[1]) + 1 - i][1],
         batch |-> data[1][Len(data[1]) + 1 - i][2]]]

\* The list restore() builds: one wrapper appended per tuple, in order.
memory_loads(data) ==
    [i \in 1..Len(data[1]) |->
        [priority |-> data[1][i][1], batch |-> data[1][i][2]]]

\* backup(): the caller keeps the result.
mem_backup ==
    /\ mem_data' = memory_dumps(memory, max_priority)
    /\ lastOp' = "mem_backup"
    /\ UNCHANGED <<memory, max_priority, capacity, batchs>>
    /\ UNCHANGED engine_vars
    /\ UNCHANGED cpu_vars

\* restore(data) of the caller's backup.
mem_restore ==
    /\ mem_data # <<>>
    /\ memory' = memory_loads(mem_data)
    /\ max_priority' = mem_data[2]
    /\ lastOp' = "mem_restore"
    /\ UNCHANGED <<capacity, batchs, mem_data>>
    /\ UNCHANGED engine_vars
    /\ UNCHANGED cpu_vars

add_snap == add_from(SnapBatches, {NoTdError} \cup {<<e>> : e \in SnapTdErrors})

update_snap ==
    /\ Len(memory) + Len(batchs) <= MaxMemLen
    /\ update_from(SnapTdErrors)

InitMemSnap ==
    /\ InitEngine({<<8, 8>>})
    /\ \E c \in SnapCapacities : memory_init(c)

NextMemSnap ==
    \/ add_snap
    \/ sample
    \/ update_snap
    \/ mem_backup
    \/ mem_restore

SpecMemSnap == InitMemSnap /\ [][NextMemSnap]_vars

\* ------------------------------------------------------------- the rule
\* The rule of the game stated on the board alone, for the properties below.

Directions8 == ({-1, 0, 1} \X {-1, 0, 1}) \ {<<0, 0>>}

in_grid(w, h, x, y) == x >= 0 /\ x < w /\ y >= 0 /\ y < h

\* The colour on (x, y), 0 for an empty cell and for a place outside the grid.
colour_at(f, w, h, x, y) == IF in_grid(w, h, x, y) THEN f[w * y + x] ELSE 0

\* k >= 2 such that the k-1 cells after (x, y) in direction d hold `c` stones
\* of the opponent and the k-th a stone of `c`; 0 when there is no such k.
outflank_len(f, w, h, x, y, d, c) ==
    LET ks == {k \in 2..(w + h) :
                /\ \A j \in 1..(k - 1) :
                       colour_at(f, w, h, x + j * d[1], y + j * d[2]) = -c
                /\ colour_at(f, w, h, x + k * d[1], y + k * d[2]) = c}
    IN  IF ks = {} THEN 0 ELSE CHOOSE k \in ks : TRUE

\* The cells a stone of colour c put on cell a captures.
captured(f, w, h, a, c) ==
    {b \in 0..(w * h - 1) :
        \E d \in Directions8 :
            \E j \in 1..(outflank_len(f, w, h, a % w, a \div w, d, c) - 1) :
                /\ b % w = (a % w) + j * d[1]
                /\ b \div w = (a \div w) + j * d[2]}

\* The board after colour c is put on cell a.
board_after(f, w, h, a, c) ==
    [b \in 0..(w * h - 1) |->
        IF b = a \/ b \in captured(f, w, h, a, c) THEN c ELSE f[b]]

stones(f) == count_of(f, 1) + count_of(f, -1)

has_legal(md, p) == \E a \in DOMAIN md[p] : Len(md[p][a]) > 0

\* This step is a call_step.
IsStep == lastOp # "init" /\ lastOp' = "step"

\* This step is a call_step whose selection has no movable direction.
IsIllegalStep == IsStep /\ Len(movable_dirs[player_index][action']) = 0

\* This step is a call_step that applies a move.
IsMoveStep == IsStep /\ Len(movable_dirs[player_index][action']) > 0

\* The last call was a call_step that applied a move: it did not return the
\* (done, empty info) of the error branch.
MoveApplied == lastOp = "step" /\ ~(ret.done /\ ret.info = {})

\* ----------------------------------------------------------------- claims

\* C1: a call_step whose action has an empty movable-direction list for the
\* mover returns done = true with rewards (-1, 0) when the mover is player 0
\* and (0, -1) when it is player 1, on every board.
C1_IllegalSelectionEnds ==
    [][IsIllegalStep =>
        /\ ret'.done
        /\ ret'.r1 = (IF player_index = 0 THEN -1 ELSE 0)
        /\ ret'.r2 = (IF player_index = 0 THEN 0 ELSE -1)]_vars

\* C1 witness: player 1 selected an illegal cell on a board in play.
C1_Witness ==
    /\ lastOp = "step"
    /\ player_index = 1
    /\ ret.done /\ ret.info = {} /\ ret.r1 = 0 /\ ret.r2 = -1
    /\ stones(field) > 4
    /\ has_legal(movable_dirs, 1)

\* C2: when a move is applied and afterwards neither player has a legal cell,
\* call_step returns done = true, +1 for the player with strictly more stones
\* and -1 for the other, 0 for both on a tie, and the info holds both counts.
C2_EndByStoneCount ==
    [][(IsMoveStep /\ ~has_legal(movable_dirs', 0) /\ ~has_legal(movable_dirs', 1)) =>
        LET p1 == count_of(field', 1)
            p2 == count_of(field', -1)
        IN  /\ ret'.done
            /\ p1 > p2 => (ret'.r1 = 1 /\ ret'.r2 = -1)
            /\ p1 < p2 => (ret'.r1 = -1 /\ ret'.r2 = 1)
            /\ p1 = p2 => (ret'.r1 = 0 /\ ret'.r2 = 0)
            /\ ret'.info = {<<"P1", p1>>, <<"P2", p2>>}]_vars

\* C2 witness: a move ended the game and player 1 holds more stones.
C2_Witness ==
    /\ MoveApplied
    /\ ret.done
    /\ ~has_legal(movable_dirs, 0) /\ ~has_legal(movable_dirs, 1)
    /\ count_of(field, -1) > count_of(field, 1)

\* C3: when a move is applied and afterwards the opponent has no legal cell
\* while the mover has one, player_index is unchanged, the rewards are (0, 0),
\* done is false, and the board is the one the move produces.
C3_AutomaticPass ==
    [][(/\ IsMoveStep
        /\ ~has_legal(movable_dirs', 1 - player_index)
        /\ has_legal(movable_dirs', player_index)) =>
        /\ player_index' = player_index
        /\ ret' = [r1 |-> 0, r2 |-> 0, done |-> FALSE, info |-> {}]
        /\ field' = board_after(field, W, H, action', my_color_of(player_index))]_vars

\* C3 witness: a move was applied, the opponent cannot move and the player
\* who put the stone is to move again.
C3_Witness ==
    /\ MoveApplied
    /\ ~ret.done
    /\ field[action] = my_color_of(player_index)
    /\ ~has_legal(movable_dirs, 1 - player_index)
    /\ has_legal(movable_dirs, player_index)

\* C4: when a move is applied and afterwards the opponent has a legal cell,
\* player_index becomes the opponent, the rewards are (0, 0), done is false.
C4_TurnChange ==
    [][(IsMoveStep /\ has_legal(movable_dirs', 1 - player_index)) =>
        /\ player_index' = 1 - player_index
        /\ ret'.r1 = 0 /\ ret'.r2 = 0 /\ ~ret'.done]_vars

\* C4 witness: player 1 has moved and player 0, who can move, is to move.
C4_Witness ==
    /\ MoveApplied
    /\ ~ret.done
    /\ player_index = 0
    /\ field[action] = -1
    /\ has_legal(movable_dirs, 0)

\* C5: for even W, H >= 2 call_reset leaves 4 stones, +1 on (W/2-1, H/2-1)
\* and (W/2, H/2), -1 on (W/2, H/2-1) and (W/2-1, H/2), every other cell
\* empty, player_index = 0 and both movable-direction maps computed.
C5_ResetOpening ==
    (lastOp = "reset" /\ W % 2 = 0 /\ H % 2 = 0 /\ W >= 2 /\ H >= 2) =>
        LET cx == W \div 2
            cy == H \div 2
            plus == {pos(W, cx - 1, cy - 1), pos(W, cx, cy)}
            minus == {pos(W, cx, cy - 1), pos(W, cx - 1, cy)}
        IN  /\ DOMAIN field = 0..(W * H - 1)
            /\ \A a \in DOMAIN field :
                   field[a] = (IF a \in plus THEN 1 ELSE IF a \in minus THEN -1 ELSE 0)
            /\ Cardinality(plus) = 2 /\ Cardinality(minus) = 2
            /\ stones(field) = 4
            /\ count_of(field, 1) = 2 /\ count_of(field, -1) = 2
            /\ player_index = 0
            /\ \A p \in 0..1 : movable_dirs[p] = _calc_movable_dirs(field, W, H, p)

\* C5 witness: a reset of the 4x2 board.
C5_Witness == lastOp = "reset" /\ W = 4 /\ H = 2 /\ field[1] = 1

\* C6: over call_step the number of non-empty cells never decreases, grows by
\* exactly 1 when a move is applied, is unchanged by an illegal selection,
\* and no occupied cell becomes empty.
C6_StonesGrowByOne ==
    [][IsStep =>
        /\ stones(field') >= stones(field)
        /\ IsMoveStep => stones(field') = stones(field) + 1
        /\ IsIllegalStep =>
              /\ count_of(field', 1) = count_of(field, 1)
              /\ count_of(field', -1) = count_of(field, -1)
        /\ \A a \in DOMAIN field : field[a] # 0 => field'[a] # 0]_vars

\* C6 witness: a move was applied and left 7 stones (3 moves) on the board.
C6_Witness == MoveApplied /\ stones(field) = 7

\* C7: a move turns at least one stone of the opponent into a stone of the
\* mover: the opponent's count decreases and the mover's grows by at least 2.
C7_MoveFlips ==
    [][IsMoveStep =>
        LET my == my_color_of(player_index)
        IN  /\ \E a \in DOMAIN field : field[a] = -my /\ field'[a] = my
            /\ count_of(field', -my) < count_of(field, -my)
            /\ count_of(field', my) >= count_of(field, my) + 2]_vars

\* C7 witness: a move was applied and left its colour at least 5 stones.
C7_Witness == MoveApplied /\ count_of(field, field[action]) >= 5

\* C8: after call_reset, call_step and restore of a blob of backup,
\* movable_dirs[p] is what _calc_movable_dirs(p) computes from the field.
C8_DirsNeverStale ==
    lastOp # "init" =>
        \A p \in 0..1 : movable_dirs[p] = _calc_movable_dirs(field, W, H, p)

\* C8 witness: a restore took back at least one applied move.
C8_Witness == lastOp = "restore" /\ undone >= 1 /\ stones(field) > 4

\* C9: restore(blob) brings player_index, W, H, the cells and both direction
\* maps back to their values at backup(), after any steps and any number of
\* earlier restores of the same blob.
C9_SnapshotRoundTrip ==
    lastOp = "restore" => engine_fields = saved

\* C9 witness: the same blob was restored a second time, each time after
\* moves had changed the board, and the last step before had ended the game.
C9_Witness == lastOp = "restore" /\ undone = 2 /\ ret.done

\* C10 as stated: once call_step returned done = true, every later call_step
\* returns done = true and leaves the board and the mover as they are.
C10_Original ==
    [][(lastOp = "step" /\ ret.done /\ lastOp' = "step") =>
        (ret'.done /\ field' = field /\ player_index' = player_index)]_vars

\* C10 amended: once call_step returned done = true with no legal cell left
\* for either player, every later call_step returns done = true and leaves
\* the board, the mover and the direction maps as they are.
C10_NoMovesAbsorbing ==
    [][(/\ lastOp = "step" /\ ret.done
        /\ ~has_legal(movable_dirs, 0) /\ ~has_legal(movable_dirs, 1)
        /\ lastOp' = "step") =>
        /\ ret'.done
        /\ field' = field
        /\ player_index' = player_index
        /\ movable_dirs' = movable_dirs]_vars

\* C10 witness: a call_step made after the game had ended by stone count.
C10_Witness ==
    /\ lastOp = "step"
    /\ ret.done /\ ret.info = {}
    /\ stones(field) > 4
    /\ ~has_legal(movable_dirs, 0) /\ ~has_legal(movable_dirs, 1)

\* The numpad codes in a direction list.
codes_of(dirs) == {dirs[i] : i \in 1..Len(dirs)}

\* C11: direction d is in the list of cell c for player p exactly when c is
\* empty, the neighbour in d holds the opponent's colour and the run of
\* opponent stones ends on a stone of p; an occupied cell has an empty list.
C11_DirsAreTheRule ==
    lastOp = "calc" =>
        \A p \in 0..1 : \A a \in 0..(W * H - 1) :
            /\ field[a] # 0 => movable_dirs[p][a] = <<>>
            /\ Len(movable_dirs[p][a]) = Cardinality(codes_of(movable_dirs[p][a]))
            /\ codes_of(movable_dirs[p][a]) =
                  {t[3] : t \in {u \in {DirList[i] : i \in 1..Len(DirList)} :
                      /\ field[a] = 0
                      /\ outflank_len(field, W, H, a % W, a \div W,
                                      <<u[1], u[2]>>, my_color_of(p)) > 0}}

\* C11 witness: a board on which a cell of player 1 captures in three
\* directions.
C11_Witness ==
    /\ lastOp = "calc"
    /\ \E a \in 0..(W * H - 1) : Len(movable_dirs[1][a]) >= 3

\* A board on which a direction of player 0 runs over three opponent stones.
C11_LongRun ==
    /\ lastOp = "calc"
    /\ \E a \in 0..(W * H - 1) :
          /\ Len(movable_dirs[0][a]) >= 1
          /\ \E d \in Directions8 :
                outflank_len(field, W, H, a % W, a \div W, d, 1) = 4

\* The cells turned by a move on cell a with direction list dirs: for each
\* direction the opponent stones up to the first stone of colour c.
turned(f, w, h, a, dirs, c) ==
    {b \in 0..(w * h - 1) :
        \E i \in 1..Len(dirs) :
            LET d == move_diff(dirs[i])
            IN  \E j \in 1..(outflank_len(f, w, h, a % w, a \div w, d, c) - 1) :
                    /\ b % w = (a % w) + j * d[1]
                    /\ b \div w = (a \div w) + j * d[2]}

\* C12: a move puts the mover's colour on the empty action cell and, for each
\* direction of the cell's list, on the opponent stones up to the first stone
\* of the mover; every cell it overwrites held the opponent's colour and
\* every other cell is unchanged.
C12_CaptureAndFrame ==
    [][IsMoveStep =>
        LET my == my_color_of(player_index)
            t == turned(field, W, H, action', movable_dirs[player_index][action'], my)
        IN  /\ field[action'] = 0
            /\ field'[action'] = my
            /\ \A b \in t : field[b] = -my /\ field'[b] = my
            /\ \A b \in DOMAIN field : (b # action' /\ b \notin t) => field'[b] = field[b]
            /\ DOMAIN field' = DOMAIN field]_vars

\* C12 witness: a move was applied, left 8 stones and did not end the game.
C12_Witness == MoveApplied /\ stones(field) = 8 /\ ~ret.done

\* C13: on the 8x8 board after call_reset, action 34 = (2, 4) is legal for
\* player 0 and flips exactly the stone on (3, 4); the stones go from 4 to 5,
\* 4 of player 0 and 1 of player 1.
C13_Opening8x8 ==
    [][(lastOp = "reset" /\ W = 8 /\ H = 8 /\ lastOp' = "step" /\ action' = 34) =>
        /\ player_index = 0
        /\ pos(W, 2, 4) = 34
        /\ Len(movable_dirs[0][34]) > 0
        /\ {b \in DOMAIN field : field[b] # 0 /\ field'[b] # field[b]} = {pos(W, 3, 4)}
        /\ field[pos(W, 3, 4)] = -1 /\ field'[pos(W, 3, 4)] = 1
        /\ stones(field) = 4 /\ stones(field') = 5
        /\ count_of(field', 1) = 4 /\ count_of(field', -1) = 1
        /\ ~ret'.done]_vars

\* C13 witness: the 8x8 board after reset and action 34.
C13_Witness ==
    /\ lastOp = "step" /\ W = 8 /\ H = 8 /\ action = 34
    /\ stones(field) = 5 /\ field[34] = 1 /\ field[35] = 1

\* ------------------------------------------------------------ the search
\* Readings of the last search, for the properties below.

\* The value of a board under the weights of its width.
static_eval(f, w, h) ==
    IF w = 8 THEN dot(evals8x8, f, 1, Len(evals8x8))
    ELSE IF w = 6 THEN dot(evals6x6, f, 1, Len(evals6x6))
    ELSE 0

\* A call_policy returned normally just now.
Searched == lastOp = "policy" /\ ~raised

is_max_of(v, s) ==
    /\ \E a \in DOMAIN s : s[a] = v
    /\ \A a \in DOMAIN s : s[a] <= v

\* The reward of the node's mover in a step of the search, times 500.
terminal_score(e) == (IF e.node.player_index = 0 THEN e.r1 ELSE e.r2) * 500

\* The steps of the search made by the node that was entered on board f.
steps_from(f) == {e \in trace : e.node.field = f}

\* C14: a call of call_policy leaves the caller's engine (board, mover,
\* direction maps and shape) exactly as it was.
C14_CallerEngineUntouched ==
    [][lastOp' = "policy" /\ searches' # searches
        => UNCHANGED <<W, H, player_index, field, movable_dirs>>]_vars

\* C14 witness: a search that simulated moves returned.
C14_Witness ==
    /\ Searched
    /\ count > 1
    /\ \E e \in trace : e.after.field # field

\* C15: the returned action attains the maximum of the root scores, and it
\* is drawn from all the actions that attain it.
C15_RootPolicy ==
    Searched =>
        /\ \A a \in DOMAIN render_scores :
                render_scores[a] <= render_scores[chosen]
        /\ chosen \in choices
        /\ choices = {a \in DOMAIN render_scores :
                        \A b \in DOMAIN render_scores :
                            render_scores[b] <= render_scores[a]}

\* C15 witness: the returned action is a maximum that is not the first one
\* of the three or more actions that attain it.
C15_Witness ==
    /\ Searched
    /\ Cardinality(choices) >= 3
    /\ \E a \in DOMAIN render_scores :
        a < chosen /\ render_scores[a] = render_scores[chosen]

\* C16 as stated: with max_depth = 0 and an empty cache, the root score of a
\* legal action is the value of the board after that action (in either
\* sign), or the scaled reward when the action ends the game.
C16_Original ==
    (Searched /\ max_depth = 0 /\ searches = 1) =>
        \A e \in trace : e.depth = 0 =>
            IF e.done THEN render_scores[e.a] = terminal_score(e)
            ELSE render_scores[e.a] \in {static_eval(e.after.field, W, H),
                                         -static_eval(e.after.field, W, H)}

\* C16: with max_depth = 0 and an empty cache the search looks two moves
\* ahead.  The root score of a legal action is the scaled reward when the
\* action ends the game; otherwise it is the signed maximum of the scores of
\* the replies, and the score of a reply is its scaled reward or the signed
\* value of the board after the action and the reply.  No board three moves
\* ahead is reached.
C16_TwoPlyLookahead ==
    (Searched /\ max_depth = 0 /\ searches = 1) =>
        /\ \A e \in trace : e.depth <= 1
        /\ \A e \in trace : e.depth = 1 =>
            e.score = IF e.done THEN terminal_score(e)
                      ELSE IF e.node.player_index = 0
                           THEN static_eval(e.after.field, W, H)
                           ELSE -static_eval(e.after.field, W, H)
        /\ \A e \in trace : e.depth = 0 =>
            IF e.done THEN render_scores[e.a] = terminal_score(e)
            ELSE LET replies == {r \in steps_from(e.after.field) : r.depth = 1}
                     best == CHOOSE r \in replies :
                                \A q \in replies : q.score <= r.score
                 IN  /\ replies # {}
                     /\ render_scores[e.a] =
                            IF e.node.player_index # e.after.player_index
                            THEN -best.score ELSE best.score

\* C16 witness: a first search with max_depth = 0 on the 6x6 board whose
\* root score of some action differs from the value of the board after it.
C16_Witness ==
    /\ Searched /\ max_depth = 0 /\ searches = 1 /\ W = 6
    /\ \E e \in trace :
        /\ e.depth = 0 /\ ~e.done
        /\ render_scores[e.a] # static_eval(e.after.field, W, H)
        /\ render_scores[e.a] # -static_eval(e.after.field, W, H)

\* C17 as stated: a cache entry is only ever hit by a state with the mover
\* and the board shape of the state that stored it.
C17_KeyIsolation ==
    \A h \in hits : h.node = h.owner

\* C18 as stated: the value of a leaf is the value of the board, inverted
\* exactly when the mover at the root of the search is player 1.
C18_Original ==
    Searched =>
        \A e \in trace : (~e.done /\ e.depth > max_depth) =>
            e.score = IF player_index = 1
                      THEN -static_eval(e.after.field, W, H)
                      ELSE static_eval(e.after.field, W, H)

\* C18: the value of a leaf is the value of the board, inverted exactly when
\* the mover of the node that played the move is player 1.
C18_LeafSignByNodeMover ==
    Searched =>
        \A e \in trace : (~e.done /\ e.depth > max_depth) =>
            e.score = IF e.node.player_index = 1
                      THEN -static_eval(e.after.field, W, H)
                      ELSE static_eval(e.after.field, W, H)

\* C18 witness: a search from player 0 with a leaf of non-zero value that
\* was played, and inverted, by player 1.
C18_Witness ==
    /\ Searched /\ player_index = 0
    /\ \E e \in trace :
        /\ ~e.done /\ e.depth > max_depth
        /\ e.node.player_index = 1
        /\ static_eval(e.after.field, W, H) # 0
        /\ e.score = -static_eval(e.after.field, W, H)

\* C19: above the leaves, the score of a move that does not end the game is
\* minus the maximum of the child's scores when the mover changed, and plus
\* that maximum when the opponent was passed.
C19_NegamaxSign ==
    Searched =>
        \A e \in trace : (~e.done /\ e.depth <= max_depth) =>
            /\ as_seq(e.after.field, W * H) \in DOMAIN cache
            /\ LET child == cache[as_seq(e.after.field, W * H)]
               IN  IF e.node.player_index # e.after.player_index
                   THEN is_max_of(-e.score, child)
                   ELSE is_max_of(e.score, child)
            /\ e.depth = 0 => render_scores[e.a] = e.score

\* C19 witness: one search took a child's maximum after a pass and another
\* child's maximum after a change of mover, both non-zero.
C19_Witness ==
    /\ Searched
    /\ \E e \in trace :
        /\ ~e.done /\ e.depth <= max_depth /\ e.score # 0
        /\ e.node.player_index = e.after.player_index
    /\ \E e \in trace :
        /\ ~e.done /\ e.depth <= max_depth /\ e.score # 0
        /\ e.node.player_index # e.after.player_index

\* C20: every action of a node is applied to the state the node was entered
\* with: its cells, its direction maps and its mover.
C20_SiblingIsolation ==
    \A e \in trace : e.applied = e.node

\* C20 witness: a node applied an action after a sibling that ended the
\* game, and a node applied an action after a sibling that went two further
\* plies down.
C20_Witness ==
    /\ Searched
    /\ \E e1 \in trace : \E e2 \in steps_from(e1.node.field) :
        e1.a < e2.a /\ e1.done
    /\ \E e1 \in trace : \E e2 \in steps_from(e1.node.field) :
        /\ e1.a < e2.a /\ ~e1.done
        /\ \E d \in trace : d.depth = e1.depth + 2

\* C21: a search that returned visited exactly the states it added to the
\* cache and simulated moves only from them: a state found in the cache
\* costs no visit and no move.  A search whose root is in the cache returns
\* the cached vector, visits nothing, simulates nothing and leaves the cache
\* and the caller's engine as they were.
C21_CacheHitNoWork ==
    [][(lastOp' = "policy" /\ searches' # searches /\ ~raised') =>
        LET added == DOMAIN cache' \ DOMAIN cache
            root == as_seq(field, W * H)
        IN  /\ count' = Cardinality(added)
            /\ \A e \in trace' : as_seq(e.node.field, W * H) \in added
            /\ \A h \in hits' : h.key \in DOMAIN cache'
            /\ root \in DOMAIN cache =>
                    /\ render_scores' = cache[root]
                    /\ count' = 0
                    /\ trace' = {}
                    /\ cache' = cache
                    /\ UNCHANGED <<W, H, player_index, field, movable_dirs>>
       ]_vars

\* C21 witness: a search that visited states found an entry of an earlier
\* search below its root.
C21_Witness ==
    /\ Searched /\ searches >= 2
    /\ count > 0
    /\ \E h \in hits : h.depth >= 1

\* A search whose root was in the cache.
C21_RootHit == Searched /\ count = 0 /\ \E h \in hits : h.depth = 0

\* C22: the score of an action that ended the game is the reward of the
\* node's mover times 500, at every depth; at the root it is the returned
\* score of the action.
C22_TerminalScore ==
    Searched =>
        \A e \in trace : e.done =>
            /\ e.score = (IF e.node.player_index = 0 THEN e.r1 ELSE e.r2) * 500
            /\ e.depth = 0 => render_scores[e.a] = e.score

\* C22 witness: one search ended the game beyond max_depth with a non-zero
\* reward, by a move of player 1 and by a move of player 0.
C22_Witness ==
    /\ Searched
    /\ \E e \in trace : e.done /\ e.depth > max_depth /\ e.r2 # 0
    /\ \E e \in trace : e.done /\ e.node.player_index = 1 /\ e.r2 # 0
    /\ \E e \in trace : e.done /\ e.node.player_index = 0 /\ e.r1 # 0

\* A search ended the game by a move within max_depth.
C22_ShallowEnd == Searched /\ \E e \in trace : e.done /\ e.depth <= max_depth

\* The legal actions of the engine's mover.
legal_now == {a \in 0..(W * H - 1) : Len(movable_dirs[player_index][a]) > 0}

\* C23 as stated: in the vector a search returns for the engine's state, the
\* entry of an action is -999 exactly when the action is not legal for the
\* mover.
C23_Sentinel ==
    Searched =>
        /\ DOMAIN render_scores = 0..(W * H - 1)
        /\ \A a \in DOMAIN render_scores :
                render_scores[a] = -999 <=> a \notin legal_now

\* C24 as stated: on a board that is not 8x8 or 6x6 a search ends without
\* error and every heuristic leaf score is 0.
C24_FallbackZero ==
    (lastOp = "policy" /\ ~(W = H /\ W \in {6, 8})) =>
        /\ ~raised
        /\ \A e \in trace : (~e.done /\ e.depth > max_depth) => e.score = 0

\* C27 as stated: the action a search returns is legal for the engine's
\* mover whenever that mover has a legal action.
C27_AgentPlaysLegal ==
    (Searched /\ legal_now # {}) => chosen \in legal_now

\* The root scores of a search of the engine's state by a process whose
\* cache is empty.
fresh_scores ==
    _negamax(max_depth, env_copy(engine_fields), 0,
             [cache |-> <<>>, owner |-> <<>>, count |-> 0, trace |-> {},
              hits |-> {}, raised |-> FALSE]).scores

\* C28 as stated: the root scores a search returns are those of a search of
\* the same state with the same max_depth from an empty cache.
C28_CacheTransparent ==
    Searched => render_scores = fresh_scores

\* C29: a call_step on a selection with no movable direction leaves the
\* cells, the mover, both direction maps and the board shape as they were;
\* the selection is recorded as the last action.
C29_IllegalStepFrame ==
    [][IsIllegalStep =>
        /\ UNCHANGED <<field, player_index, movable_dirs, W, H>>
        /\ Len(movable_dirs'[player_index'][action']) = 0]_vars

\* C29 witness: player 1 made an illegal selection in the middle of a game
\* and the recorded action is that selection, a cell that holds a stone.
C29_Witness ==
    /\ lastOp = "step" /\ ret.done /\ ret.info = {}
    /\ player_index = 1
    /\ stones(field) >= 6
    /\ action # 0 /\ field[action] # 0

\* C25: in an episode of legal moves that is not finished, after call_reset
\* and after every call_step, the player named by player_index has a legal
\* action.
C25_NoStuckMover ==
    (lastOp \in {"reset", "step"} /\ ~ret.done) =>
        has_legal(movable_dirs, player_index)

\* C25 witness: the opponent of the last mover had no legal action, the turn
\* stayed with the player who moved, and that player has a legal action.
C25_Witness ==
    /\ lastOp = "step" /\ ~ret.done /\ W = 4 /\ H = 4
    /\ field[action] = my_color_of(player_index)
    /\ ~has_legal(movable_dirs, 1 - player_index)
    /\ has_legal(movable_dirs, player_index)

\* C26: every call_step that does not return done has put one more stone on
\* the board, and no call_step that left W * H stones returns not done: the
\* k-th call of an episode that is not done has left 4 + k stones, so done is
\* returned by the call number W * H - 4 at the latest.
C26_EpisodeEnds ==
    /\ []((lastOp = "step" /\ ~ret.done) => stones(field) < W * H)
    /\ [][(lastOp' = "step" /\ ~ret'.done) =>
            stones(field') = stones(field) + 1]_vars

\* C26 witness: an episode that ended with the call number W * H - 4, on a
\* full board.
C26_Witness ==
    /\ lastOp = "step" /\ ret.done /\ W = 4 /\ H = 4
    /\ stones(field) = W * H

\* C30 as stated: the memory never holds more entries than its capacity.
C30_CapacityBound == Len(memory) <= capacity

\* The list is in non-decreasing priority order.
is_sorted(a) == \A i \in 1..Len(a) : \A j \in 1..Len(a) :
    i < j => a[i].priority <= a[j].priority

\* C31: after every add, sample, update, backup and restore the memory list
\* is in non-decreasing priority order, and the entry an add on a full
\* memory removes, the one at index 0, has the lowest priority of the list.
C31_MemorySorted ==
    /\ [](is_sorted(memory))
    /\ [][(lastOp' = "add" /\ Len(memory) >= capacity) =>
            /\ \A i \in 1..Len(memory) :
                    memory[1].priority <= memory[i].priority
            /\ \E i \in 1..Len(memory') :
                    list_pop(memory', i - 1) = Tail(memory)]_vars

\* C31 witness: an add on a memory above its capacity removed the entry at
\* index 0 after a backup was restored, and left entries of three
\* priorities.
C31_Witness ==
    /\ lastOp = "add" /\ mem_data # <<>>
    /\ Len(memory) > capacity
    /\ memory # memory_loads(mem_data)
    /\ Cardinality({memory[i].priority : i \in 1..Len(memory)}) = 3
====
